---- MODULE Spec2Model ----
(***************************************************************************)
(* OMFG fork synchronisation: the GitHub App's configuration validation,   *)
(* upstream comparison and sync decision logic (app/syncFork.js) and the   *)
(* push event handler that drives it (app/index.js); and the GitHub Action *)
(* (src/index.js, src/sync.js, src/utils.js).                              *)
(*                                                                         *)
(* Strings are sequences of one-character strings; a template placeholder  *)
(* such as {branch} is one symbol of such a sequence.                      *)
(***************************************************************************)
EXTENDS Integers, Sequences, FiniteSets, TLC

VARIABLES
    val,    \* validateConfig applied to one input: [config, result]
    ren,    \* the pull-request text rendered for one input: [config, comparison, done, title, body]
    plat,   \* the remote platform: [file, isFork, upstreamTip, forkRefs, prs, pushes]
    now,    \* the clock Date.now() reads
    loc,    \* per push event, the handler's position and local values
    calls,  \* per push event, the remote calls issued so far, in order
    act     \* one run of the Action: inputs, position, operations performed, outcome

vars == <<val, ren, plat, now, loc, calls, act>>

appVars == <<plat, now, loc, calls>>

(***************************************************************************)
(* JavaScript values, as far as the code inspects them.  A value is a type *)
(* tag and a payload (the characters of a string, the elements of an       *)
(* array, the literal of a boolean or number).                             *)
(***************************************************************************)
Undefined == [t |-> "undefined", v |-> <<>>]
Null      == [t |-> "null", v |-> <<>>]
True      == [t |-> "boolean", v |-> <<"true">>]
False     == [t |-> "boolean", v |-> <<"false">>]
Zero      == [t |-> "number", v |-> <<"0">>]
One       == [t |-> "number", v |-> <<"1">>]
Str(s)    == [t |-> "string", v |-> s]
Arr(s)    == [t |-> "array", v |-> s]

\* JavaScript's ToBoolean: what `!x` and `x && ...` test.
Truthy(x) ==
    CASE x.t \in {"undefined", "null"} -> FALSE
      [] x.t = "boolean" -> x.v = <<"true">>
      [] x.t = "number"  -> x.v \notin {<<"0">>, <<"NaN">>}
      [] x.t = "string"  -> x.v # <<>>
      [] OTHER           -> TRUE

\* JavaScript's typeof operator.
typeof(x) ==
    CASE x.t \in {"null", "array", "object"} -> "object"
      [] OTHER -> x.t

\* Array.isArray
isArray(x) == x.t = "array"

\* String.prototype.includes for a one-character needle.
includes(s, c) == \E i \in 1..Len(s) : s[i] = c

\* String.prototype.split for a one-character separator
RECURSIVE split(_, _)
split(s, c) ==
    IF ~includes(s, c) THEN <<s>>
    ELSE LET i == CHOOSE k \in 1..Len(s) : s[k] = c /\ \A j \in 1..(k - 1) : s[j] # c
         IN  <<SubSeq(s, 1, i - 1)>> \o split(SubSeq(s, i + 1, Len(s)), c)

\* index of the first occurrence of symbol c in s (s includes c)
indexOf(s, c) == CHOOSE k \in 1..Len(s) : s[k] = c /\ \A j \in 1..(k - 1) : s[j] # c

\* The replacement text of String.prototype.replace with the special
\* patterns expanded: $$ is a dollar sign, $& the matched text, $` the text
\* before the match and $' the text after it; any other $ stands for itself.
RECURSIVE expandReplacement(_, _, _, _)
expandReplacement(rep, pre, match, post) ==
    IF rep = <<>> THEN <<>>
    ELSE IF rep[1] = "$" /\ Len(rep) >= 2 /\ rep[2] \in {"$", "&", "`", "'"}
         THEN (CASE rep[2] = "$" -> <<"$">>
                 [] rep[2] = "&" -> match
                 [] rep[2] = "`" -> pre
                 [] rep[2] = "'" -> post)
              \o expandReplacement(SubSeq(rep, 3, Len(rep)), pre, match, post)
         ELSE <<rep[1]>> \o expandReplacement(Tail(rep), pre, match, post)

\* String.prototype.replace(pattern, replacement) with a string pattern (here
\* one symbol): only the first occurrence is replaced.
replace(s, pat, rep) ==
    IF ~includes(s, pat) THEN s
    ELSE LET i    == indexOf(s, pat)
             pre  == SubSeq(s, 1, i - 1)
             post == SubSeq(s, i + 1, Len(s))
         IN  pre \o expandReplacement(rep, pre, <<pat>>, post) \o post

\* String.prototype.substring(0, n)
substring0(s, n) == SubSeq(s, 1, IF Len(s) < n THEN Len(s) ELSE n)

\* Array.prototype.join for an array of strings
RECURSIVE join(_, _)
join(parts, sep) ==
    IF parts = <<>> THEN <<>>
    ELSE IF Len(parts) = 1 THEN parts[1]
    ELSE parts[1] \o <<sep>> \o join(Tail(parts), sep)

(***************************************************************************)
(* A parsed .omfg.yml document: any value yaml.load can return.  For an    *)
(* object, props holds the six properties the code reads; a property the   *)
(* document does not set reads as undefined, as it does in JavaScript.     *)
(***************************************************************************)
PropNames == {"auto_sync", "upstream", "branches", "create_pr", "pr_title", "pr_body"}

NoProps == [n \in PropNames |-> Undefined]

Scalar(x) == [t |-> x.t, v |-> x.v, props |-> NoProps]

Obj(p) == [t |-> "object", v |-> <<>>, props |-> p]

MsgNotObject == "Configuration must be an object"
MsgAutoSync  == "auto_sync must be a boolean"
MsgUpstreamString == "upstream must be a string in format \"owner/repo\""
MsgUpstreamFormat == "upstream must be in format \"owner/repo\""
MsgBranches  == "branches must be an array"
MsgCreatePr  == "create_pr must be a boolean"
MsgPrTitle   == "pr_title must be a string"
MsgPrBody    == "pr_body must be a string"

\* syncFork.js:42  the guard of the early return
notAnObject(config) == ~Truthy(config) \/ typeof(config) # "object"

\* syncFork.js:48-50
autoSyncErrors(config) ==
    IF typeof(config.props.auto_sync) # "boolean" THEN <<MsgAutoSync>> ELSE <<>>

upstreamErrors_noElse(config) ==
    (IF ~Truthy(config.props.upstream) \/ typeof(config.props.upstream) # "string"
        THEN <<MsgUpstreamString>> ELSE <<>>)
    \o (IF ~includes(config.props.upstream.v, "/")
        THEN <<MsgUpstreamFormat>> ELSE <<>>)

\* syncFork.js:52-56
upstreamErrors(config) ==
    IF ~Truthy(config.props.upstream) \/ typeof(config.props.upstream) # "string"
    THEN <<MsgUpstreamString>>
    ELSE IF ~includes(config.props.upstream.v, "/")
         THEN <<MsgUpstreamFormat>>
         ELSE <<>>

\* syncFork.js:59-61
branchesErrors(config) ==
    IF Truthy(config.props.branches) /\ ~isArray(config.props.branches)
    THEN <<MsgBranches>> ELSE <<>>

\* syncFork.js:63-65
createPrErrors(config) ==
    IF config.props.create_pr # Undefined /\ typeof(config.props.create_pr) # "boolean"
    THEN <<MsgCreatePr>> ELSE <<>>

\* syncFork.js:67-69
prTitleErrors(config) ==
    IF config.props.pr_title # Undefined /\ typeof(config.props.pr_title) # "string"
    THEN <<MsgPrTitle>> ELSE <<>>

\* syncFork.js:71-73
prBodyErrors(config) ==
    IF config.props.pr_body # Undefined /\ typeof(config.props.pr_body) # "string"
    THEN <<MsgPrBody>> ELSE <<>>

fieldErrors_stopAtFirst(config) ==
    LET all == autoSyncErrors(config) \o upstreamErrors(config) \o branchesErrors(config)
                   \o createPrErrors(config) \o prTitleErrors(config) \o prBodyErrors(config)
    IN  IF all = <<>> THEN <<>> ELSE <<all[1]>>

\* syncFork.js:47-73  the checks run on an object, each appending to errors
fieldErrors(config) ==
    autoSyncErrors(config) \o upstreamErrors(config) \o branchesErrors(config)
        \o createPrErrors(config) \o prTitleErrors(config) \o prBodyErrors(config)

validateConfig_noEarlyReturn(config) ==
    LET errors == (IF notAnObject(config) THEN <<MsgNotObject>> ELSE <<>>)
                      \o fieldErrors(config)
    IN  [valid |-> Len(errors) = 0, errors |-> errors]

\* syncFork.js:39-76
validateConfig(config) ==
    IF notAnObject(config)
    THEN [valid |-> FALSE, errors |-> <<MsgNotObject>>]
    ELSE LET errors == fieldErrors(config)
         IN  [valid |-> Len(errors) = 0, errors |-> errors]

(***************************************************************************)
(* The pull-request text (createSyncPullRequest, syncFork.js:170-183).     *)
(* A comparison is [behind_by, ahead_by, status, commits, base_branch]; a  *)
(* commit is [sha, message].                                               *)
(***************************************************************************)
ShortShaLen == 7

DefaultPrTitle == <<"Auto-sync with upstream">>

\* syncFork.js:171-178  the default body template
DefaultPrBody ==
    <<"This PR automatically syncs changes from the upstream repository.", "\n", "\n",
      "**Upstream:** ", "{upstream}", "\n",
      "**Branch:** ", "{branch}", "\n",
      "**Commits behind:** ", "{commits_behind}", "\n", "\n",
      "## Changes included:", "\n",
      "{commit_list}">>

\* a || b on a property that is a string when it is truthy
orDefault(x, d) == IF Truthy(x) THEN x.v ELSE d

\* syncFork.js:182  one entry of the commit list
commitLine(commit) ==
    <<"-", " ">> \o substring0(commit.sha, ShortShaLen) \o <<":", " ">>
        \o split(commit.message, "\n")[1]

\* syncFork.js:181-183  commits.map(...).join('\n')
commitList(commits) ==
    join([i \in 1..Len(commits) |-> commitLine(commits[i])], "\n")

\* syncFork.js:170
prTitle(config, comparison) == orDefault(config.props.pr_title, DefaultPrTitle)

\* syncFork.js:171-183
prBody(config, comparison) ==
    replace(
      replace(
        replace(
          replace(orDefault(config.props.pr_body, DefaultPrBody),
                  "{upstream}", config.props.upstream.v),
          "{branch}", comparison.base_branch),
        "{commits_behind}", <<ToString(comparison.behind_by)>>),
      "{commit_list}", commitList(comparison.commits))

(***************************************************************************)
(* The remote platform, as far as the calls of syncFork.js depend on it:   *)
(* the fork's .omfg.yml, the upstream repository with its default branch,  *)
(* the refs of the fork, its pull requests, and the commit graph behind    *)
(* the refs.  A response is [ok, status, message] plus the data of the     *)
(* call.  The rules are those of the GitHub REST API the code is written   *)
(* against: compare base...head counts in ahead_by the commits of head     *)
(* that base lacks and in behind_by the commits of base that head lacks;   *)
(* a ref update without `force: true` must be a fast-forward; a ref that   *)
(* exists cannot be created again.                                         *)
(***************************************************************************)
ForkOwner     == <<"u">>          \* context.payload.repository.owner.login
ForkName      == <<"r">>          \* context.payload.repository.name
UpstreamOwner == <<"o">>
UpstreamRepo  == <<"r">>
DefaultBranch == <<"main">>       \* the upstream's default_branch

\* The commit graph: c0 is the fork point, u1 and u2 follow it upstream, f1
\* follows it in the fork only.
CommitIds == {"c0", "u1", "u2", "f1"}

Ancestors(id) ==
    CASE id = "c0" -> {"c0"}
      [] id = "u1" -> {"c0", "u1"}
      [] id = "u2" -> {"c0", "u1", "u2"}
      [] id = "f1" -> {"c0", "f1"}

CommitOrder == <<"c0", "u1", "u2", "f1">>

\* a commit as the compare response lists it
CommitData(id) ==
    [sha |-> <<id, "a", "b", "c", "d", "e", "f", "0">>,
     message |-> IF id = "u1" THEN <<"F", "i", "x", "\n", "m", "o", "r", "e">>
                 ELSE <<"A", "d", "d">>]

Ok(data)        == [ok |-> TRUE, status |-> 200, message |-> "OK", data |-> data]
Fail(code, msg) == [ok |-> FALSE, status |-> code, message |-> msg, data |-> <<>>]

\* a transport or server failure, which any call can meet
ServerError == Fail(500, "Internal Server Error")
NotFound    == Fail(404, "Not Found")

\* repos.getContent
platformGetContent(pl, params) ==
    IF params.owner = ForkOwner /\ params.repo = ForkName
           /\ params.path = ".omfg.yml" /\ pl.file.state # "absent"
    THEN Ok(pl.file)
    ELSE NotFound

\* repos.get
platformReposGet(pl, params) ==
    IF params.owner = UpstreamOwner /\ params.repo = UpstreamRepo
    THEN Ok([default_branch |-> DefaultBranch])
    ELSE NotFound

\* the commit an owner:branch of the upstream's network names, "" if none
resolveBranch(pl, owner, branch) ==
    IF owner = UpstreamOwner /\ branch = DefaultBranch THEN pl.upstreamTip
    ELSE IF owner = ForkOwner /\ branch \in DOMAIN pl.forkRefs THEN pl.forkRefs[branch]
    ELSE ""

RECURSIVE commitsIn(_, _)
\* the commits of the set ids, oldest first
commitsIn(ids, order) ==
    IF order = <<>> THEN <<>>
    ELSE (IF order[1] \in ids THEN <<CommitData(order[1])>> ELSE <<>>)
         \o commitsIn(ids, Tail(order))

\* repos.compareCommitsWithBasehead
platformCompare(pl, params) ==
    LET base == resolveBranch(pl, params.basehead.base.owner, params.basehead.base.branch)
        head == resolveBranch(pl, params.basehead.head.owner, params.basehead.head.branch)
    IN  IF params.owner # UpstreamOwner \/ params.repo # UpstreamRepo
              \/ base = "" \/ head = ""
        THEN NotFound
        ELSE LET ahead  == Ancestors(head) \ Ancestors(base)
                 behind == Ancestors(base) \ Ancestors(head)
             IN  Ok([ahead_by  |-> Cardinality(ahead),
                     behind_by |-> Cardinality(behind),
                     status    |-> IF ahead = {} /\ behind = {} THEN "identical"
                                   ELSE IF behind = {} THEN "ahead"
                                   ELSE IF ahead = {} THEN "behind"
                                   ELSE "diverged",
                     commits   |-> commitsIn(ahead, CommitOrder)])

\* git.getRef
platformGetRef(pl, params) ==
    IF params.owner = UpstreamOwner /\ params.repo = UpstreamRepo
           /\ params.ref = <<"heads/">> \o DefaultBranch
    THEN Ok([object |-> [sha |-> pl.upstreamTip]])
    ELSE IF params.owner = ForkOwner /\ params.repo = ForkName
           /\ Len(params.ref) >= 1 /\ params.ref[1] = "heads/"
           /\ Tail(params.ref) \in DOMAIN pl.forkRefs
    THEN Ok([object |-> [sha |-> pl.forkRefs[Tail(params.ref)]]])
    ELSE NotFound

\* git.createRef: the response
platformCreateRef(pl, params) ==
    IF params.owner # ForkOwner \/ params.repo # ForkName THEN NotFound
    ELSE IF Len(params.ref) < 2 \/ params.ref[1] # "refs/heads/" \/ params.sha \notin CommitIds
    THEN Fail(422, "Reference name or sha is not valid")
    ELSE IF Tail(params.ref) \in DOMAIN pl.forkRefs
    THEN Fail(422, "Reference already exists")
    ELSE Ok(<<>>)

\* git.createRef: the fork's refs after a call that succeeded
afterCreateRef(pl, params) ==
    [pl EXCEPT !.forkRefs = [b \in DOMAIN pl.forkRefs \cup {Tail(params.ref)} |->
                                  IF b = Tail(params.ref) THEN params.sha
                                  ELSE pl.forkRefs[b]]]

\* the `force` parameter of git.updateRef, false when the call leaves it out
forceOf(params) == IF "force" \in DOMAIN params THEN params.force ELSE FALSE

\* git.updateRef: the response
platformUpdateRef(pl, params) ==
    IF params.owner # ForkOwner \/ params.repo # ForkName THEN NotFound
    ELSE IF Len(params.ref) < 2 \/ params.ref[1] # "heads/"
              \/ Tail(params.ref) \notin DOMAIN pl.forkRefs
              \/ params.sha \notin CommitIds
    THEN Fail(422, "Reference does not exist")
    ELSE IF ~forceOf(params) /\ pl.forkRefs[Tail(params.ref)] \notin Ancestors(params.sha)
    THEN Fail(422, "Update is not a fast forward")
    ELSE Ok(<<>>)

\* git.updateRef: the fork's refs after a call that succeeded
afterUpdateRef(pl, params) ==
    [pl EXCEPT !.forkRefs[Tail(params.ref)] = params.sha]

\* pulls.create: the response
platformPullsCreate(pl, params) ==
    IF params.owner # ForkOwner \/ params.repo # ForkName THEN NotFound
    ELSE IF params.head \notin DOMAIN pl.forkRefs \/ params.base \notin DOMAIN pl.forkRefs
    THEN Fail(422, "Validation Failed")
    ELSE Ok([number |-> Len(pl.prs) + 1])

\* pulls.create: the pull requests after a call that succeeded
afterPullsCreate(pl, params) ==
    [pl EXCEPT !.prs = Append(pl.prs, [head |-> params.head, base |-> params.base,
                                           title |-> params.title, body |-> params.body])]

(***************************************************************************)
(* loadConfig, compareForkWithUpstream, syncFork and its two strategies,   *)
(* and the push handler of app/index.js, cut into the pieces between two   *)
(* awaited remote calls.                                                   *)
(***************************************************************************)
\* String.prototype.includes for a needle of several symbols
includesSeq(s, sub) ==
    \E i \in 1..(Len(s) - Len(sub) + 1) : SubSeq(s, i, i + Len(sub) - 1) = sub

RefsHeadsMain   == <<"refs/heads/", "m", "a", "i", "n">>
RefsHeadsMaster == <<"refs/heads/", "m", "a", "s", "t", "e", "r">>

\* index.js:175  the negation of the early return's guard
refPasses(ref) == includesSeq(ref, RefsHeadsMain) \/ includesSeq(ref, RefsHeadsMaster)

\* syncFork.js:16-20
getContentParams == [op |-> "repos.getContent", owner |-> ForkOwner, repo |-> ForkName,
                     path |-> ".omfg.yml"]

\* a failed step: the operation, and the status and message of its error
\* (status 0 for an error that has no status property)
NoFailure == [op |-> "none", status |-> 0, message |-> ""]

\* syncFork.js:16-25  the error the try block of loadConfig raises, if any:
\* the rejected getContent call, Buffer.from on a response that has no
\* content (the path is a directory), or yaml.load on a malformed document
loadError(resp) ==
    IF ~resp.ok
    THEN [op |-> "repos.getContent", status |-> resp.status, message |-> resp.message]
    ELSE IF resp.data.state = "directory"
    THEN [op |-> "Buffer.from", status |-> 0, message |-> "TypeError"]
    ELSE IF resp.data.state = "invalid"
    THEN [op |-> "yaml.load", status |-> 0, message |-> "YAMLException"]
    ELSE NoFailure

NotLoaded == [kind |-> "none", config |-> Scalar(Undefined), message |-> <<>>]

loadConfig_nullOnFetchError(resp) ==
    LET error == loadError(resp)
    IN  IF error = NoFailure
        THEN [kind |-> "value", config |-> resp.data.doc, message |-> <<>>]
        ELSE IF error.op = "repos.getContent"
        THEN [kind |-> "value", config |-> Scalar(Null), message |-> <<>>]
        ELSE [kind |-> "threw", config |-> Scalar(Undefined),
              message |-> <<"Failed to load .omfg.yml: ", error.message>>]

\* syncFork.js:14-32  what loadConfig makes of the getContent response
loadConfig(resp) ==
    LET error == loadError(resp)
    IN  IF error = NoFailure
        THEN [kind |-> "value", config |-> resp.data.doc, message |-> <<>>]
        ELSE IF error.status = 404
        THEN [kind |-> "value", config |-> Scalar(Null), message |-> <<>>]
        ELSE [kind |-> "threw", config |-> Scalar(Undefined),
              message |-> <<"Failed to load .omfg.yml: ", error.message>>]

shouldSync_noValidation(config, isFork) ==
    /\ Truthy(config)
    /\ isFork /\ Truthy(config.props.auto_sync)

\* index.js:183-195  the handler goes on to syncFork
shouldSync(config, isFork) ==
    /\ Truthy(config)
    /\ validateConfig(config).valid
    /\ isFork /\ Truthy(config.props.auto_sync)

\* syncFork.js:85, 166, 229  const [upstreamOwner, upstreamRepo] = config.upstream.split('/')
upstreamOwnerOf(config) == split(config.props.upstream.v, "/")[1]
upstreamRepoOf(config) ==
    LET parts == split(config.props.upstream.v, "/")
    IN  IF Len(parts) >= 2 THEN parts[2] ELSE <<"undefined">>

\* syncFork.js:90-93
reposGetParams(config) ==
    [op |-> "repos.get", owner |-> upstreamOwnerOf(config), repo |-> upstreamRepoOf(config)]

\* syncFork.js:98-102
compareParams(config, baseBranch) ==
    [op |-> "repos.compareCommitsWithBasehead",
     owner |-> upstreamOwnerOf(config), repo |-> upstreamRepoOf(config),
     basehead |-> [base |-> [owner |-> ForkOwner, branch |-> baseBranch],
                   head |-> [owner |-> upstreamOwnerOf(config), branch |-> baseBranch]]]

\* syncFork.js:104-110
comparisonOf(data, baseBranch) ==
    [behind_by |-> data.behind_by, ahead_by |-> data.ahead_by, status |-> data.status,
     commits |-> data.commits, base_branch |-> baseBranch]

upToDate_aheadBy(comparison) == comparison.ahead_by = 0

\* syncFork.js:131
upToDate(comparison) == comparison.behind_by = 0

shouldCreatePR_strictTrue(config) == config.props.create_pr = True

\* syncFork.js:139
shouldCreatePR(config) == config.props.create_pr # False

\* syncFork.js:133
UpToDateResult ==
    [kind |-> "returned",
     value |-> [success |-> TRUE, message |-> <<"Fork is already up to date">>]]

\* syncFork.js:147-151
SyncedResult(comparison) ==
    [kind |-> "returned",
     value |-> [success |-> TRUE,
                message |-> <<"Successfully synced ", ToString(comparison.behind_by),
                              " commits from upstream">>,
                commits_synced |-> comparison.behind_by]]

Threw_noOriginal(prefix, original) == [kind |-> "threw", message |-> <<prefix, "">>]

\* an error thrown out of syncFork, or out of loadConfig
Threw(prefix, original) == [kind |-> "threw", message |-> <<prefix, original>>]

NoResult == [kind |-> "none"]

\* syncFork.js:187
syncBranchNameAt(t) == <<"omfg-sync-", ToString(t)>>

getRefParams_ofFork(config, comparison) ==
    [op |-> "git.getRef", owner |-> ForkOwner, repo |-> ForkName,
     ref |-> <<"heads/">> \o comparison.base_branch]

\* syncFork.js:190-194, 235-239
getRefParams(config, comparison) ==
    [op |-> "git.getRef", owner |-> upstreamOwnerOf(config), repo |-> upstreamRepoOf(config),
     ref |-> <<"heads/">> \o comparison.base_branch]

createRefParams_forkSha(syncBranchName, upstreamRef) ==
    [op |-> "git.createRef", owner |-> ForkOwner, repo |-> ForkName,
     ref |-> <<"refs/heads/">> \o syncBranchName, sha |-> "f1"]

\* syncFork.js:197-202
createRefParams(syncBranchName, upstreamRef) ==
    [op |-> "git.createRef", owner |-> ForkOwner, repo |-> ForkName,
     ref |-> <<"refs/heads/">> \o syncBranchName, sha |-> upstreamRef]

pullsCreateParams_headIsBase(config, comparison, syncBranchName) ==
    [op |-> "pulls.create", owner |-> ForkOwner, repo |-> ForkName,
     title |-> prTitle(config, comparison), body |-> prBody(config, comparison),
     head |-> comparison.base_branch, base |-> comparison.base_branch]

\* syncFork.js:205-212
pullsCreateParams(config, comparison, syncBranchName) ==
    [op |-> "pulls.create", owner |-> ForkOwner, repo |-> ForkName,
     title |-> prTitle(config, comparison), body |-> prBody(config, comparison),
     head |-> syncBranchName, base |-> comparison.base_branch]

\* syncFork.js:242-247
updateRefParams(comparison, upstreamRef) ==
    [op |-> "git.updateRef", owner |-> ForkOwner, repo |-> ForkName,
     ref |-> <<"heads/">> \o comparison.base_branch, sha |-> upstreamRef]

(***************************************************************************)
(* Values a variable holds while its part of the model is not in use, and  *)
(* the bounded sets inputs are drawn from.                                 *)
(***************************************************************************)
NotValidated == [valid |-> FALSE, errors |-> <<"not validated">>]

ValIdle == [config |-> Scalar(Undefined), result |-> NotValidated]

NoComparison ==
    [behind_by |-> 0, ahead_by |-> 0, status |-> "none", commits |-> <<>>,
     base_branch |-> <<>>]

RenIdle ==
    [config |-> Scalar(Undefined), comparison |-> NoComparison, done |-> FALSE,
     title |-> <<>>, body |-> <<>>]

NoError == [text |-> "", value |-> <<>>]

Error(text) == [text |-> text, value |-> <<>>]

NoInputs ==
    [readError |-> "", upstreamRepo |-> <<>>, dryRun |-> FALSE, syncCode |-> FALSE,
     syncWorkflows |-> FALSE, syncSecrets |-> FALSE, conflictStrategy |-> "",
     requireApproval |-> FALSE]

NoSyncResult ==
    [status |-> "none", filesChanged |-> 0, conflicts |-> <<>>, changes |-> <<>>,
     error |-> NoError]

\* the clone the Action runs in and its remote: the branch checked out, the
\* branch upstream was merged or rebased into ("" while none was), the
\* branches pushed to origin, and the pull requests opened
NoRepoChange ==
    [checkedOut |-> "workflow branch", integrated |-> "", pushed |-> {}, prs |-> <<>>]

ActIdle ==
    [pc |-> "idle", inputs |-> NoInputs, thrown |-> NoError, upstreamRepo |-> <<>>,
     ops |-> <<>>, result |-> NoSyncResult, outputs |-> <<>>, failed |-> <<>>,
     raisedIn |-> "none", conflictSeen |-> FALSE, repo |-> NoRepoChange]

\* all sequences over S of length at most n
RECURSIVE SeqsUpTo(_, _)
SeqsUpTo(S, n) ==
    IF n = 0 THEN {<<>>}
    ELSE LET shorter == SeqsUpTo(S, n - 1)
         IN  shorter \cup {Append(s, c) : s \in shorter, c \in S}

(***************************************************************************)
(* The GitHub App: push events handled against one fork.                   *)
(***************************************************************************)
Procs == {"e1", "e2"}

MaxTime == 1
MaxPushes == 1

PushRefs ==
    { <<"refs/heads/", "m", "a", "i", "n">>,
      <<"refs/heads/", "m", "a", "i", "n", "l", "i", "n", "e">>,
      <<"refs/heads/", "d", "e", "v">> }

UpstreamString == UpstreamOwner \o <<"/">> \o UpstreamRepo

Doc(autoSync, upstream, createPr, title, body) ==
    Obj([auto_sync |-> autoSync, upstream |-> upstream, branches |-> Undefined,
         create_pr |-> createPr, pr_title |-> title, pr_body |-> body])

\* the .omfg.yml documents of the fork
ConfigDocs ==
    { Scalar(Undefined),
      Scalar(Null),
      Scalar(Str(<<"i">>)),
      Doc(True, Str(<<"o">>), Undefined, Undefined, Undefined),
      Doc(True, Undefined, False, Undefined, Undefined),
      Doc(False, Str(UpstreamString), Undefined, Undefined, Undefined),
      Doc(True, Str(<<"/">>), Undefined, Undefined, Undefined),
      Doc(True, Str(UpstreamString), Undefined, Undefined, Undefined),
      Doc(True, Str(UpstreamString), True,
          Str(<<"S", "y", "n", "c", ":", " ", "{branch}">>),
          Str(<<"{commits_behind}", " ", "{upstream}">>)),
      Doc(True, Str(UpstreamString), False, Undefined, Undefined),
      [Doc(True, Str(UpstreamString), Undefined, Undefined, Undefined)
          EXCEPT !.props.branches = Arr(<< <<"d", "e", "v">> >>)] }

ConfigFiles ==
    {[state |-> "absent", doc |-> Scalar(Undefined)],
     [state |-> "invalid", doc |-> Scalar(Undefined)],
     [state |-> "directory", doc |-> Scalar(Undefined)]}
        \cup {[state |-> "ok", doc |-> d] : d \in ConfigDocs}

ForkTips == {"c0", "u1", "f1"}
UpstreamTips == {"c0", "u1", "u2"}

LocIdle ==
    [pc |-> "idle", ref |-> <<>>, config |-> Scalar(Undefined), loaded |-> FALSE,
     loadError |-> NoFailure, load |-> NotLoaded,
     failure |-> NoFailure, escaped |-> FALSE,
     invoked |-> FALSE, baseBranch |-> <<>>, compared |-> FALSE,
     comparison |-> NoComparison, strategy |-> "none", syncBranchName |-> <<>>,
     upstreamRef |-> "", result |-> NoResult, log |-> <<>>]

PlatIdle ==
    [file |-> [state |-> "absent", doc |-> Scalar(Undefined)], isFork |-> FALSE,
     upstreamTip |-> "c0", forkRefs |-> (DefaultBranch :> "c0"), prs |-> <<>>,
     pushes |-> 0]

AppIdle ==
    /\ plat = PlatIdle
    /\ now = 0
    /\ loc = [p \in Procs |-> LocIdle]
    /\ calls = [p \in Procs |-> <<>>]

Init ==
    /\ \E f \in ConfigFiles, k \in BOOLEAN, u \in UpstreamTips, t \in ForkTips :
           plat = [file |-> f, isFork |-> k, upstreamTip |-> u,
                   forkRefs |-> (DefaultBranch :> t), prs |-> <<>>, pushes |-> 0]
    /\ now = 0
    /\ loc = [p \in Procs |-> LocIdle]
    /\ calls = [p \in Procs |-> <<>>]
    /\ val = ValIdle
    /\ ren = RenIdle
    /\ act = ActIdle

\* the call the handler of event p is waiting for
pending(p) == calls[p][Len(calls[p])]

\* the handler of p is over, with what syncFork returned or threw, and
\* with the error entries it logged
Finish(p, fields, result, entries) ==
    loc' = [loc EXCEPT ![p] = [fields EXCEPT !.pc = "done", !.result = result,
                                             !.log = fields.log \o entries]]

Await_issuedTwice(p, fields, pc, call) ==
    /\ loc' = [loc EXCEPT ![p] = [fields EXCEPT !.pc = pc]]
    /\ calls' = [calls EXCEPT ![p] = calls[p] \o <<call, call>>]

\* the handler of p goes on to await the call
Await(p, fields, pc, call) ==
    /\ loc' = [loc EXCEPT ![p] = [fields EXCEPT !.pc = pc]]
    /\ calls' = [calls EXCEPT ![p] = Append(calls[p], call)]

\* the error of a remote call that was rejected
Failure(call, resp) == [op |-> call.op, status |-> resp.status, message |-> resp.message]

handlerCatch_rethrows == [log |-> <<>>, escaped |-> TRUE]

\* index.js:199-201  the catch of the push handler: it logs the error and
\* lets nothing out of the handler
handlerCatch == [log |-> <<"Error processing push event">>, escaped |-> FALSE]

\* an error reaches the catch of the handler of p, which is then over
Caught(p, fields, result, entries) ==
    Finish(p, [fields EXCEPT !.escaped = handlerCatch.escaped], result,
           entries \o handlerCatch.log)

\* an error out of syncFork: logged there (syncFork.js:154), rethrown, and
\* caught by the handler
SyncFailed(p, fields, prefix, error) ==
    Caught(p, [fields EXCEPT !.failure = error], Threw(prefix, error.message),
           <<"Failed to sync fork">>)

\* index.js:170-182  a push event arrives; the handler runs to loadConfig's getContent
Receive(p) ==
    /\ loc[p].pc = "idle"
    /\ \E ref \in PushRefs :
          IF refPasses(ref)
          THEN Await(p, [loc[p] EXCEPT !.ref = ref], "getContent", getContentParams)
          ELSE /\ Finish(p, [loc[p] EXCEPT !.ref = ref], NoResult, <<>>)
               /\ UNCHANGED calls
    /\ UNCHANGED <<plat, now, val, ren, act>>

\* syncFork.js:16-31, index.js:182-198, syncFork.js:121-93  getContent answers;
\* loadConfig, validateConfig and the handler's checks run, up to repos.get
GetContent(p) ==
    /\ loc[p].pc = "getContent"
    /\ \E resp \in {platformGetContent(plat, pending(p)), ServerError} :
          LET loaded == loadConfig(resp)
              fields == [loc[p] EXCEPT !.loaded = (loaded.kind = "value"),
                                       !.config = loaded.config,
                                       !.loadError = loadError(resp),
                                       !.load = loaded]
          IN  IF loaded.kind = "threw"
              THEN /\ Caught(p, fields, NoResult, <<>>)
                   /\ UNCHANGED calls
              ELSE IF ~shouldSync(loaded.config, plat.isFork)
              THEN /\ Finish(p, fields, NoResult,
                             IF Truthy(loaded.config) /\ ~validateConfig(loaded.config).valid
                             THEN <<"Invalid configuration">> ELSE <<>>)
                   /\ UNCHANGED calls
              ELSE IF loaded.config.props.upstream.t # "string"
              THEN /\ SyncFailed(p, [fields EXCEPT !.invoked = TRUE], "",
                                   [op |-> "split", status |-> 0, message |-> "TypeError"])
                   /\ UNCHANGED calls
              ELSE Await(p, [fields EXCEPT !.invoked = TRUE], "repos.get",
                         reposGetParams(loaded.config))
    /\ UNCHANGED <<plat, now, val, ren, act>>

\* syncFork.js:90-102  repos.get answers; on to the comparison
ReposGet(p) ==
    /\ loc[p].pc = "repos.get"
    /\ \E resp \in {platformReposGet(plat, pending(p)), ServerError} :
          IF resp.ok
          THEN Await(p, [loc[p] EXCEPT !.baseBranch = resp.data.default_branch],
                     "compare", compareParams(loc[p].config, resp.data.default_branch))
          ELSE /\ SyncFailed(p, loc[p], "Failed to compare fork with upstream: ",
                             Failure(pending(p), resp))
               /\ UNCHANGED calls
    /\ UNCHANGED <<plat, now, val, ren, act>>

\* syncFork.js:98-145, 165-194, 228-239  the comparison answers; syncFork
\* decides, and the chosen strategy runs up to its getRef
Compare(p) ==
    /\ loc[p].pc = "compare"
    /\ \E resp \in {platformCompare(plat, pending(p)), ServerError} :
          IF ~resp.ok
          THEN /\ SyncFailed(p, loc[p], "Failed to compare fork with upstream: ",
                             Failure(pending(p), resp))
               /\ UNCHANGED <<calls, now>>
          ELSE LET comparison == comparisonOf(resp.data, loc[p].baseBranch)
                   fields == [loc[p] EXCEPT !.compared = TRUE, !.comparison = comparison]
               IN  IF upToDate(comparison)
                   THEN /\ Finish(p, fields, UpToDateResult, <<>>)
                        /\ UNCHANGED <<calls, now>>
                   ELSE IF shouldCreatePR(loc[p].config)
                   THEN \E t \in now..MaxTime :
                           /\ now' = t
                           /\ Await(p, [fields EXCEPT !.strategy = "pr",
                                                      !.syncBranchName = syncBranchNameAt(t)],
                                    "getRef", getRefParams(loc[p].config, comparison))
                   ELSE /\ Await(p, [fields EXCEPT !.strategy = "direct"],
                                 "getRef", getRefParams(loc[p].config, comparison))
                        /\ UNCHANGED now
    /\ UNCHANGED <<plat, val, ren, act>>

strategyPrefix_alwaysPullRequest(strategy) == "Failed to create sync pull request: "

\* syncFork.js:218, 252  the message prefix of the strategy's catch
strategyPrefix(strategy) ==
    IF strategy = "pr" THEN "Failed to create sync pull request: "
    ELSE "Failed to perform direct sync: "

\* syncFork.js:190-202, 235-247  getRef answers; on to createRef or updateRef
GetRef(p) ==
    /\ loc[p].pc = "getRef"
    /\ \E resp \in {platformGetRef(plat, pending(p)), ServerError} :
          IF ~resp.ok
          THEN /\ SyncFailed(p, loc[p], strategyPrefix(loc[p].strategy),
                             Failure(pending(p), resp))
               /\ UNCHANGED calls
          ELSE LET fields == [loc[p] EXCEPT !.upstreamRef = resp.data.object.sha]
               IN  IF loc[p].strategy = "pr"
                   THEN Await(p, fields, "createRef",
                              createRefParams(loc[p].syncBranchName, resp.data.object.sha))
                   ELSE Await(p, fields, "updateRef",
                              updateRefParams(loc[p].comparison, resp.data.object.sha))
    /\ UNCHANGED <<plat, now, val, ren, act>>

\* syncFork.js:197-212  createRef answers; on to pulls.create
CreateRef(p) ==
    /\ loc[p].pc = "createRef"
    /\ \E resp \in {platformCreateRef(plat, pending(p)), ServerError} :
          IF ~resp.ok
          THEN /\ SyncFailed(p, loc[p], strategyPrefix("pr"),
                             Failure(pending(p), resp))
               /\ UNCHANGED <<calls, plat>>
          ELSE /\ plat' = afterCreateRef(plat, pending(p))
               /\ Await(p, loc[p], "pulls.create",
                        pullsCreateParams(loc[p].config, loc[p].comparison,
                                          loc[p].syncBranchName))
    /\ UNCHANGED <<now, val, ren, act>>

compensatingCalls_deleteSyncBranch(syncBranchName) ==
    << [op |-> "git.deleteRef", owner |-> ForkOwner, repo |-> ForkName,
        ref |-> <<"heads/">> \o syncBranchName] >>

\* syncFork.js:217-219  the remote calls the catch of createSyncPullRequest
\* issues before it rethrows: none
compensatingCalls(syncBranchName) == <<>>

\* git.deleteRef: the fork's refs after the calls cs, each deleting a ref
afterDeleteRefs(pl, cs) ==
    LET deleted == {Tail(cs[i].ref) : i \in 1..Len(cs)}
    IN  [pl EXCEPT !.forkRefs = [b \in DOMAIN pl.forkRefs \ deleted |-> pl.forkRefs[b]]]

\* syncFork.js:205-220, 147-151  pulls.create answers; syncFork returns
PullsCreate(p) ==
    /\ loc[p].pc = "pulls.create"
    /\ \E resp \in {platformPullsCreate(plat, pending(p)), ServerError} :
          IF ~resp.ok
          THEN LET cs == compensatingCalls(loc[p].syncBranchName)
               IN  /\ SyncFailed(p, loc[p], strategyPrefix("pr"),
                                 Failure(pending(p), resp))
                   /\ calls' = [calls EXCEPT ![p] = calls[p] \o cs]
                   /\ plat' = afterDeleteRefs(plat, cs)
          ELSE /\ plat' = afterPullsCreate(plat, pending(p))
               /\ Finish(p, loc[p], SyncedResult(loc[p].comparison), <<>>)
               /\ UNCHANGED calls
    /\ UNCHANGED <<now, val, ren, act>>

\* syncFork.js:242-254, 147-151  updateRef answers; syncFork returns
UpdateRef(p) ==
    /\ loc[p].pc = "updateRef"
    /\ \E resp \in {platformUpdateRef(plat, pending(p)), ServerError} :
          IF ~resp.ok
          THEN /\ SyncFailed(p, loc[p], strategyPrefix("direct"),
                             Failure(pending(p), resp))
               /\ UNCHANGED plat
          ELSE /\ plat' = afterUpdateRef(plat, pending(p))
               /\ Finish(p, loc[p], SyncedResult(loc[p].comparison), <<>>)
    /\ UNCHANGED <<calls, now, val, ren, act>>

\* the fork's owner pushes to the default branch of the fork (with or without
\* force), which is also what raises a push event
ForkPush ==
    /\ plat.pushes < MaxPushes
    /\ \E t \in ForkTips \ {plat.forkRefs[DefaultBranch]} :
          plat' = [plat EXCEPT !.forkRefs[DefaultBranch] = t, !.pushes = @ + 1]
    /\ UNCHANGED <<now, loc, calls, val, ren, act>>

\* the upstream's default branch gains commits
UpstreamPush ==
    /\ plat.pushes < MaxPushes
    /\ \E t \in UpstreamTips :
          /\ t # plat.upstreamTip
          /\ plat.upstreamTip \in Ancestors(t)
          /\ plat' = [plat EXCEPT !.upstreamTip = t, !.pushes = @ + 1]
    /\ UNCHANGED <<now, loc, calls, val, ren, act>>

Next ==
    \/ \E p \in Procs :
          \/ Receive(p) \/ GetContent(p) \/ ReposGet(p) \/ Compare(p)
          \/ GetRef(p) \/ CreateRef(p) \/ PullsCreate(p) \/ UpdateRef(p)
    \/ ForkPush
    \/ UpstreamPush

Spec == Init /\ [][Next]_vars

\* the handler of p resumes on the answer to the call it awaits
HandlerStep(p) ==
    \/ GetContent(p) \/ ReposGet(p) \/ Compare(p)
    \/ GetRef(p) \/ CreateRef(p) \/ PullsCreate(p) \/ UpdateRef(p)

NextHandlers == \E p \in Procs : Receive(p) \/ HandlerStep(p)

\* the handler of p is suspended on a remote call
Awaiting(p) == loc[p].pc \notin {"idle", "done"}

\* a step of the handler of p other than the one on createRef's answer
OtherStep(p) == loc[p].pc # "createRef" /\ HandlerStep(p)

\* weak fairness of CreateRef(p), WF_vars(CreateRef(p)), written with the
\* state predicate that ENABLED <<CreateRef(p)>>_vars is equal to (the
\* handler awaits createRef), which spares TLC rendering the pull request
\* text to find the step enabled
CreateRefFairness(p) ==
    []<>(loc[p].pc # "createRef") \/ []<><<CreateRef(p)>>_vars

\* Every awaited remote call settles, with a response or with an error, and
\* the event loop then resumes the handler: weak fairness of the handler's
\* steps.
HandlerFairness(p) == WF_vars(OtherStep(p)) /\ CreateRefFairness(p)

\* the handlers alone, each resumed whenever its call has settled
SpecFair == Init /\ [][NextHandlers]_vars /\ \A p \in Procs : HandlerFairness(p)

(***************************************************************************)
(* Inputs of validateConfig.                                               *)
(***************************************************************************)
MaxUpstreamLen == 5

UpstreamChars == {"a", "/"}

UpstreamValues ==
    {Undefined, Null, One, Arr(<<"a/a">>)}
        \cup {Str(s) : s \in SeqsUpTo(UpstreamChars, MaxUpstreamLen)}

AutoSyncValues == {Undefined, True, False, Str(<<"t">>)}
BranchesValues == {Undefined, Arr(<<"main">>), Arr(<<>>), Str(<<"m">>), Str(<<>>), False, Zero}
CreatePrValues == {Undefined, True, False, Str(<<"n">>)}
TemplateTypeValues == {Undefined, Str(<<"T">>), One}

NonObjectConfigs ==
    {Scalar(x) : x \in {Undefined, Null, True, False, Zero, One, Str(<<>>), Str(<<"i">>)}}

ValidateInputs ==
    NonObjectConfigs \cup {Scalar(Arr(<<>>))}
        \cup {Obj([auto_sync |-> a, upstream |-> u, branches |-> b,
                   create_pr |-> c, pr_title |-> t, pr_body |-> y]) :
                a \in AutoSyncValues, u \in UpstreamValues, b \in BranchesValues,
                c \in CreatePrValues, t \in TemplateTypeValues,
                y \in TemplateTypeValues}

ValInit ==
    /\ val \in [config : ValidateInputs, result : {NotValidated}]
    /\ ren = RenIdle
    /\ act = ActIdle
    /\ AppIdle

Validate ==
    /\ val.result = NotValidated
    /\ val' = [val EXCEPT !.result = validateConfig(val.config)]
    /\ UNCHANGED <<ren, appVars, act>>

SpecValidate == ValInit /\ [][Validate]_vars

(***************************************************************************)
(* Inputs of the pull-request text.                                        *)
(***************************************************************************)
MaxTemplateLen == 2
MaxCommits == 2

Placeholders == {"{upstream}", "{branch}", "{commits_behind}", "{commit_list}"}

TemplateSymbols == Placeholders \cup {"x"}

SampleCommits ==
    { [sha |-> <<"a", "b", "c", "1", "2", "3">>,
       message |-> <<"F", "i", "x", "\n", "D", "e", "t", "a", "i", "l">>],
      [sha |-> <<"d", "e", "f", "4", "5", "6", "7", "8", "9">>,
       message |-> <<"A", "d", "d">>],
      [sha |-> <<"0", "1", "2", "3", "4", "5", "6">>,
       message |-> <<"$", "&", "1">>] }

RenderTitles == {Undefined, Str(<<>>), Str(<<"S", "y", "n", "c", ":", " ", "{branch}">>)}

RenderBodies == {Undefined} \cup {Str(s) : s \in SeqsUpTo(TemplateSymbols, MaxTemplateLen)}

RenderUpstreams == {<<"o", "/", "r">>, <<"a", "c", "m", "e", "/", "w">>}

RenderConfigs ==
    {Obj([auto_sync |-> True, upstream |-> Str(u), branches |-> Undefined,
          create_pr |-> Undefined, pr_title |-> t, pr_body |-> b]) :
        u \in RenderUpstreams, t \in RenderTitles, b \in RenderBodies}

RenderComparisons ==
    [behind_by : 1..2, ahead_by : {0}, status : {"behind"},
     commits : SeqsUpTo(SampleCommits, MaxCommits),
     base_branch : {<<"m", "a", "i", "n">>}]

RenInit ==
    /\ ren \in [config : RenderConfigs, comparison : RenderComparisons, done : {FALSE},
                title : {<<>>}, body : {<<>>}]
    /\ val = ValIdle
    /\ act = ActIdle
    /\ AppIdle

\* createSyncPullRequest up to the pulls.create parameters title and body
Render ==
    /\ ~ren.done
    /\ ren' = [ren EXCEPT !.done = TRUE,
                          !.title = prTitle(ren.config, ren.comparison),
                          !.body = prBody(ren.config, ren.comparison)]
    /\ UNCHANGED <<val, appVars, act>>

SpecRender == RenInit /\ [][Render]_vars

(***************************************************************************)
(* The GitHub Action: one run of run() (src/index.js), with validateInputs *)
(* (src/utils.js) and sync (src/sync.js).  An error is [text, value]: the  *)
(* fixed text of its message and the input value the message quotes in    *)
(* the place marked $1.  The pictographs that open the log and setFailed   *)
(* messages are left out.                                                  *)
(***************************************************************************)
\* src/utils.js:8
validStrategies == {"merge", "rebase", "fail"}

\* the characters of the class [a-zA-Z0-9_.-] that the inputs are made of
NameChars == {"a", "0", ".", "-", "_"}

\* src/utils.js:15-16  /^[a-zA-Z0-9_.-]+\/[a-zA-Z0-9_.-]+$/.test(s)
repoPatternTest(s) ==
    \E i \in 2..(Len(s) - 1) :
        /\ s[i] = "/"
        /\ \A j \in (1..Len(s)) \ {i} : s[j] \in NameChars

validateInputs_optionsFirst(inputs) ==
    IF ~inputs.syncCode /\ ~inputs.syncWorkflows /\ ~inputs.syncSecrets
    THEN Error("At least one sync option must be enabled (sync-code, sync-workflows, or sync-secrets)")
    ELSE IF inputs.conflictStrategy \notin validStrategies
    THEN [text |-> "Invalid conflict-strategy: $1. Must be one of: merge, rebase, fail",
          value |-> <<inputs.conflictStrategy>>]
    ELSE IF inputs.upstreamRepo # <<>> /\ ~repoPatternTest(inputs.upstreamRepo)
    THEN [text |-> "Invalid upstream-repo format: $1. Must be in format: owner/repo",
          value |-> inputs.upstreamRepo]
    ELSE NoError

\* src/utils.js:6-27  the error validateInputs throws, NoError when it returns
validateInputs(inputs) ==
    IF inputs.conflictStrategy \notin validStrategies
    THEN [text |-> "Invalid conflict-strategy: $1. Must be one of: merge, rebase, fail",
          value |-> <<inputs.conflictStrategy>>]
    ELSE IF inputs.upstreamRepo # <<>> /\ ~repoPatternTest(inputs.upstreamRepo)
    THEN [text |-> "Invalid upstream-repo format: $1. Must be in format: owner/repo",
          value |-> inputs.upstreamRepo]
    ELSE IF ~inputs.syncCode /\ ~inputs.syncWorkflows /\ ~inputs.syncSecrets
    THEN Error("At least one sync option must be enabled (sync-code, sync-workflows, or sync-secrets)")
    ELSE NoError

\* src/index.js:79  core.setFailed(`Action failed: ${error.message}`)
ActionFailed(error) == [prefix |-> "Action failed: ", error |-> error]

\* src/index.js:75  core.setFailed(`Sync failed: ${syncResult.error}`)
SyncFailedStatus(error) == [prefix |-> "Sync failed: ", error |-> error]

MaxRepoLen == 3

RepoChars == {"a", "/", " "}

ConflictStrategies == {"merge", "rebase", "fail", "Merge", "theirs", ""}

\* what core.getInput and core.getBooleanInput hand to run(): the values of
\* the inputs, or the error one of the reads raises
ActionInputs ==
    [readError : {""}, upstreamRepo : SeqsUpTo(RepoChars, MaxRepoLen),
     dryRun : BOOLEAN, syncCode : BOOLEAN, syncWorkflows : BOOLEAN, syncSecrets : BOOLEAN,
     conflictStrategy : ConflictStrategies, requireApproval : BOOLEAN]
        \cup {[NoInputs EXCEPT !.readError = e] :
                 e \in {"Input required and not supplied: github-token",
                        "Input does not meet YAML 1.2 \"Core Schema\" specification: dry-run"}}

\* the repository the run is in, as repos.get describes it
DetectedUpstream == <<"o", "/", "r">>

ActInit ==
    /\ \E i \in ActionInputs : act = [ActIdle EXCEPT !.pc = "start", !.inputs = i]
    /\ val = ValIdle
    /\ ren = RenIdle
    /\ AppIdle

\* src/index.js:78-81  an error reaches the catch of run()
RunFailed(state, error) ==
    act' = [state EXCEPT !.pc = "done", !.thrown = error,
                         !.failed = Append(state.failed, ActionFailed(error))]

\* src/index.js:8-50  run() reads and validates the inputs and settles the
\* upstream repository, or asks the platform for it
RunValidate ==
    /\ act.pc = "start"
    /\ IF act.inputs.readError # ""
       THEN RunFailed(act, Error(act.inputs.readError))
       ELSE LET error == validateInputs(act.inputs)
            IN  IF error # NoError THEN RunFailed(act, error)
                ELSE IF act.inputs.upstreamRepo = <<>>
                THEN act' = [act EXCEPT !.pc = "repos.get",
                                        !.ops = Append(act.ops, "repos.get")]
                ELSE act' = [act EXCEPT !.pc = "sync",
                                        !.upstreamRepo = act.inputs.upstreamRepo]
    /\ UNCHANGED <<val, ren, appVars>>

\* src/index.js:39-50  repos.get answers: the parent of a fork is the upstream
RunDetect ==
    /\ act.pc = "repos.get"
    /\ \E answer \in {"fork", "not a fork", "rejected"} :
          CASE answer = "fork" ->
                 act' = [act EXCEPT !.pc = "sync", !.upstreamRepo = DetectedUpstream]
            [] answer = "not a fork" ->
                 RunFailed(act, Error("Could not auto-detect upstream repository. Please specify upstream-repo input."))
            [] answer = "rejected" -> RunFailed(act, Error("HttpError"))
    /\ UNCHANGED <<val, ren, appVars>>

MaxFiles == 1

\* n changes of one type and action
ChangesOf(type, action, n) == [i \in 1..n |-> [type |-> type, action |-> action]]

SyncThrew_statusKept(state, ops, error) ==
    act' = [state EXCEPT !.pc = "report", !.ops = state.ops \o ops,
                         !.raisedIn = state.pc, !.result.error = error]

\* src/sync.js:84-88  an error reaches the catch of sync(): sync returns
SyncThrew(state, ops, error) ==
    act' = [state EXCEPT !.pc = "report", !.ops = state.ops \o ops,
                         !.raisedIn = state.pc,
                         !.result.status = "failed", !.result.error = error]

\* src/sync.js:22-52  sync() starts: git identity, the upstream remote, the
\* fetch, and the name of the checked-out branch
SyncSetup ==
    /\ act.pc = "sync"
    /\ LET steps == <<"git.addConfig", "git.addConfig", "git.addRemote", "git.fetch",
                      "git.revparse">>
           begun == [act EXCEPT !.result = [NoSyncResult EXCEPT !.status = "success"]]
       IN  \E failing \in 0..Len(steps) :
              IF failing = 0
              THEN act' = [begun EXCEPT !.pc = "code", !.ops = act.ops \o steps]
              ELSE SyncThrew(begun, SubSeq(steps, 1, failing), Error("GitError"))
    /\ UNCHANGED <<val, ren, appVars>>

\* src/sync.js:123-129  'rebase' rebases, every other strategy merges
integrateOp(conflictStrategy) ==
    IF conflictStrategy = "rebase" THEN "git.rebase" ELSE "git.merge"

\* src/sync.js:57-63  the result of syncCodeChanges is added to sync's
addCodeResult(state, ops, status, n, conflicts, action) ==
    [state EXCEPT !.pc = "workflows", !.ops = state.ops \o ops,
                  !.conflictSeen = (status = "conflicts"),
                  !.repo.integrated =
                      IF \E i \in 1..Len(ops) : ops[i] \in {"git.merge", "git.rebase"}
                      THEN state.repo.checkedOut ELSE @,
                  !.result.filesChanged = @ + n,
                  !.result.conflicts = @ \o conflicts,
                  !.result.changes = @ \o ChangesOf("code", action, n),
                  !.result.status = IF status # "success" THEN status ELSE @]

\* src/sync.js:54-64, 93-166  the code step: syncCodeChanges
SyncCode ==
    /\ act.pc = "code"
    /\ IF ~act.inputs.syncCode
       THEN act' = [act EXCEPT !.pc = "workflows"]
       ELSE LET integrate == integrateOp(act.inputs.conflictStrategy)
            IN  \/ SyncThrew(act, <<"git.status">>, Error("GitError"))
                \/ /\ act.inputs.dryRun
                   /\ \/ \E n \in 0..MaxFiles :
                            act' = addCodeResult(act, <<"git.status", "git.diffSummary">>,
                                                 "success", n, <<>>, "modified")
                      \/ SyncThrew(act, <<"git.status", "git.diffSummary">>,
                                   Error("GitError"))
                \/ /\ ~act.inputs.dryRun
                   /\ \/ \E n \in 0..MaxFiles :
                            act' = addCodeResult(act, <<"git.status", integrate, "git.status",
                                                        "git.diffSummary">>,
                                                 "success", n, <<>>, "synced")
                      \/ act' = addCodeResult(act, <<"git.status", integrate, "git.status">>,
                                              "conflicts", 0, <<"f">>, "synced")
                      \/ \E named \in {<<"f">>, <<>>} :
                            act' = addCodeResult(act, <<"git.status", integrate>>,
                                                 "conflicts", 0, named, "synced")
                      \/ SyncThrew(act, <<"git.status", integrate>>, Error("GitError"))
    /\ UNCHANGED <<val, ren, appVars>>

\* src/sync.js:69-70  the result of syncWorkflowFiles is added to sync's
addWorkflowResult(state, ops, n, action) ==
    [state EXCEPT !.pc = "secrets", !.ops = state.ops \o ops,
                  !.result.filesChanged = @ + n,
                  !.result.changes = @ \o ChangesOf("workflow", action, n)]

\* the operations that download and write n workflow files, one after another
RECURSIVE writeWorkflows(_)
writeWorkflows(n) ==
    IF n = 0 THEN <<>>
    ELSE <<"repos.getContent", "io.mkdirP", "fs.writeFile">> \o writeWorkflows(n - 1)

\* src/sync.js:66-71, 168-234  the workflow step: syncWorkflowFiles, whose
\* errors end the step with a warning and keep what was done before them
SyncWorkflows ==
    /\ act.pc = "workflows"
    /\ IF ~act.inputs.syncWorkflows
       THEN act' = [act EXCEPT !.pc = "secrets"]
       ELSE \/ act' = addWorkflowResult(act, <<"repos.getContent">>, 0, "none")
            \/ /\ act.inputs.dryRun
               /\ \E n \in 0..MaxFiles :
                     act' = addWorkflowResult(act, <<"repos.getContent">>, n, "would-sync")
            \/ /\ ~act.inputs.dryRun
               /\ \E n \in 0..MaxFiles :
                     \/ act' = addWorkflowResult(act, <<"repos.getContent">>
                                                       \o writeWorkflows(n), n, "synced")
                     \/ act' = addWorkflowResult(act, <<"repos.getContent">>
                                                       \o writeWorkflows(n)
                                                       \o <<"repos.getContent">>,
                                                 n, "synced")
    /\ UNCHANGED <<val, ren, appVars>>

\* src/sync.js:73-77, 236-275  the secrets step: syncRepositorySecrets only
\* lists secret names and reports the ones the repository lacks
SyncSecrets ==
    /\ act.pc = "secrets"
    /\ IF ~act.inputs.syncSecrets
       THEN act' = [act EXCEPT !.pc = "approval"]
       ELSE \E listed \in 1..2, missing \in BOOLEAN :
               act' = [act EXCEPT
                          !.pc = "approval",
                          !.ops = @ \o [i \in 1..listed |-> "actions.listRepoSecrets"],
                          !.result.changes =
                              IF listed = 2 /\ missing
                              THEN @ \o ChangesOf("secrets",
                                                  IF act.inputs.dryRun
                                                  THEN "would-need-manual-sync"
                                                  ELSE "needs-manual-sync", 1)
                              ELSE @]
    /\ UNCHANGED <<val, ren, appVars>>

\* src/sync.js:278  `omfg-sync-${Date.now()}`
approvalBranchName == "omfg-sync-<now>"

approvalPullRequest_intoSyncBranch(branch) == [head |-> branch, base |-> branch]

\* src/sync.js:310-317  base is context.ref without 'refs/heads/'
approvalPullRequest(branch) == [head |-> branch, base |-> "workflow branch"]

needsApproval_whenDryRun(inputs, result) ==
    inputs.requireApproval /\ result.filesChanged > 0

\* src/sync.js:79
needsApproval(inputs, result) ==
    inputs.requireApproval /\ ~inputs.dryRun /\ result.filesChanged > 0

\* src/sync.js:79-90, 277-321  the approval pull request, and sync returns
SyncApproval ==
    /\ act.pc = "approval"
    /\ IF ~needsApproval(act.inputs, act.result)
       THEN act' = [act EXCEPT !.pc = "report"]
       ELSE LET steps == <<"git.checkoutLocalBranch", "git.push", "pulls.create">>
                branch == approvalBranchName
                \* the repository after the first n steps succeeded
                after(n) ==
                    [act EXCEPT
                        !.repo.checkedOut = IF n >= 1 THEN branch ELSE @,
                        !.repo.pushed = IF n >= 2 THEN @ \cup {branch} ELSE @,
                        !.repo.prs = IF n >= 3
                                     THEN Append(@, approvalPullRequest(branch))
                                     ELSE @]
            IN  \E failing \in 0..Len(steps) :
                   IF failing = 0
                   THEN act' = [after(3) EXCEPT !.pc = "report", !.ops = @ \o steps]
                   ELSE SyncThrew(after(failing - 1), SubSeq(steps, 1, failing),
                                  IF failing = 3 THEN Error("HttpError")
                                  ELSE Error("GitError"))
    /\ UNCHANGED <<val, ren, appVars>>

\* src/index.js:60-76  run() publishes the outputs and the status of the sync
RunReport ==
    /\ act.pc = "report"
    /\ act' = [act EXCEPT
                  !.pc = "done",
                  !.outputs = [status |-> act.result.status,
                               conflicts |-> act.result.conflicts,
                               filesChanged |-> act.result.filesChanged],
                  !.failed = IF act.result.status \notin {"success", "conflicts"}
                             THEN Append(@, SyncFailedStatus(act.result.error))
                             ELSE @]
    /\ UNCHANGED <<val, ren, appVars>>

ActNext ==
    \/ RunValidate \/ RunDetect
    \/ SyncSetup \/ SyncCode \/ SyncWorkflows \/ SyncSecrets \/ SyncApproval
    \/ RunReport

SpecAction == ActInit /\ [][ActNext]_vars

(***************************************************************************)
(* Claims about validateConfig, checked under SpecValidate.                *)
(***************************************************************************)
Validated == val.result # NotValidated

Has(errors, m) == \E i \in 1..Len(errors) : errors[i] = m

\* C8: a configuration that is null, undefined, a string, a number or a
\* boolean is answered with valid = false and exactly the one error
\* 'Configuration must be an object'.
C8_NonObjectSingleError ==
    (Validated /\ val.config.t \in {"null", "undefined", "string", "number", "boolean"})
        => val.result = [valid |-> FALSE, errors |-> <<MsgNotObject>>]

C8_Witness ==
    /\ Validated
    /\ val.config = Scalar(Str(<<"i">>))
    /\ val.result.errors = <<MsgNotObject>>

\* C9: for a configuration object, a missing, empty or non-string upstream
\* gives the "must be a string" error and not the format error; a non-empty
\* string without '/' gives the format error and not the string error; the
\* two errors never appear together.
C9_UpstreamErrorsExclusive ==
    (Validated /\ ~notAnObject(val.config)) =>
        LET u == val.config.props.upstream
            e == val.result.errors
        IN  /\ (u.t # "string" \/ u.v = <<>>)
                => (Has(e, MsgUpstreamString) /\ ~Has(e, MsgUpstreamFormat))
            /\ (u.t = "string" /\ u.v # <<>> /\ ~includes(u.v, "/"))
                => (Has(e, MsgUpstreamFormat) /\ ~Has(e, MsgUpstreamString))
            /\ ~(Has(e, MsgUpstreamString) /\ Has(e, MsgUpstreamFormat))

C9_Witness ==
    /\ Validated
    /\ val.config.t = "object"
    /\ val.config.props.upstream = Str(<<"a", "a">>)
    /\ Has(val.result.errors, MsgUpstreamFormat)

\* owner/repo: exactly one '/' with a non-empty segment on each side
OwnerRepoShape(s) ==
    LET segs == split(s, "/")
    IN  Len(segs) = 2 /\ segs[1] # <<>> /\ segs[2] # <<>>

\* C10: validateConfig reports valid = true only if upstream has the shape
\* owner/repo: exactly one '/' separator, a non-empty owner before it and a
\* non-empty repo after it.
C10_ValidOnlyIfOwnerRepo ==
    (Validated /\ val.result.valid) =>
        /\ val.config.props.upstream.t = "string"
        /\ OwnerRepoShape(val.config.props.upstream.v)

\* the messages of the checks that are violated, in the order of the checks
RECURSIVE MessagesOf(_)
MessagesOf(checks) ==
    IF checks = <<>> THEN <<>>
    ELSE (IF checks[1].violated THEN <<checks[1].message>> ELSE <<>>)
             \o MessagesOf(Tail(checks))

\* the six field checks of a configuration object: whether the object
\* violates the check, and the message of the violation.  The branches check
\* is the one validateConfig makes, which a falsy value passes (see C12).
FieldChecks(c) ==
    LET a == c.props.auto_sync
        u == c.props.upstream
        b == c.props.branches
        badString == u.t # "string" \/ u.v = <<>>
    IN  << [violated |-> a \notin {True, False}, message |-> MsgAutoSync],
           [violated |-> badString \/ ~includes(u.v, "/"),
            message |-> IF badString THEN MsgUpstreamString ELSE MsgUpstreamFormat],
           [violated |-> b.t # "array" /\ Truthy(b), message |-> MsgBranches],
           [violated |-> c.props.create_pr \notin {Undefined, True, False},
            message |-> MsgCreatePr],
           [violated |-> c.props.pr_title.t \notin {"undefined", "string"},
            message |-> MsgPrTitle],
           [violated |-> c.props.pr_body.t \notin {"undefined", "string"},
            message |-> MsgPrBody] >>

\* C11: for a configuration object every field check runs whatever the
\* others found: errors holds one message per violated check, in the order
\* auto_sync, upstream, branches, create_pr, pr_title, pr_body, and valid is
\* true exactly when errors is empty.
C11_EveryCheckReports ==
    (Validated /\ ~notAnObject(val.config)) =>
        /\ val.result.errors = MessagesOf(FieldChecks(val.config))
        /\ val.result.valid <=> (val.result.errors = <<>>)

C11_Witness ==
    /\ Validated
    /\ val.config.t = "object"
    /\ val.result.errors = <<MsgAutoSync, MsgUpstreamFormat, MsgBranches, MsgCreatePr,
                             MsgPrTitle, MsgPrBody>>

\* C12: a configuration object whose branches field is present and is not a
\* sequence (false, 0 and the empty string included) is answered with valid
\* = false and with 'branches must be an array' among the errors.
C12_NonSequenceBranchesRejected ==
    (Validated /\ ~notAnObject(val.config)
        /\ val.config.props.branches \notin {Undefined, Null}
        /\ ~isArray(val.config.props.branches))
        => (Has(val.result.errors, MsgBranches) /\ ~val.result.valid)

(***************************************************************************)
(* Claims about the pull-request text, checked under SpecRender.           *)
(***************************************************************************)
\* the value each placeholder stands for
PlaceholderValue(ph, config, comparison) ==
    CASE ph = "{upstream}"       -> config.props.upstream.v
      [] ph = "{branch}"         -> comparison.base_branch
      [] ph = "{commits_behind}" -> <<ToString(comparison.behind_by)>>
      [] ph = "{commit_list}"    -> commitList(comparison.commits)

\* a template with every occurrence of every placeholder replaced by its value
RECURSIVE SubstituteAll(_, _, _)
SubstituteAll(template, config, comparison) ==
    IF template = <<>> THEN <<>>
    ELSE (IF template[1] \in Placeholders
          THEN PlaceholderValue(template[1], config, comparison)
          ELSE <<template[1]>>)
         \o SubstituteAll(Tail(template), config, comparison)

\* C6: the title given to pulls.create is the configured pr_title with its
\* placeholders substituted, as they are in the body ('Sync: {branch}' on
\* base branch main gives 'Sync: main').
C6_TitleSubstituted ==
    ren.done =>
        ren.title = SubstituteAll(orDefault(ren.config.props.pr_title, DefaultPrTitle),
                                  ren.config, ren.comparison)

\* C7: the body given to pulls.create is the configured or default template
\* with every placeholder replaced by its value (upstream, base branch,
\* behind_by, the newline-joined commit list), so that no placeholder of the
\* template remains.
C7_BodySubstituted ==
    ren.done =>
        ren.body = SubstituteAll(orDefault(ren.config.props.pr_body, DefaultPrBody),
                                 ren.config, ren.comparison)

(***************************************************************************)
(* Claims about the push handler and syncFork, checked under Spec.         *)
(***************************************************************************)
\* how many calls of an operation the handler of p has issued
Count(p, op) == Cardinality({i \in 1..Len(calls[p]) : calls[p][i].op = op})

Returned(p) == loc[p].result.kind = "returned"

\* C1: the push handler invokes syncFork only with a loaded, non-null
\* configuration that validateConfig finds valid, on a repository that is a
\* fork, with auto_sync true; otherwise it issues no compare call and no
\* createRef, updateRef or pulls.create call.
C1_SyncOnlyWhenValidForkAutoSync ==
    \A p \in Procs :
        /\ loc[p].invoked =>
              /\ loc[p].loaded
              /\ loc[p].config.t \notin {"null", "undefined"}
              /\ validateConfig(loc[p].config).valid
              /\ plat.isFork
              /\ loc[p].config.props.auto_sync = True
        /\ ~loc[p].invoked =>
              \A i \in 1..Len(calls[p]) : calls[p][i].op = "repos.getContent"

C1_Witness ==
    \E p \in Procs :
        /\ loc[p].invoked
        /\ Count(p, "repos.compareCommitsWithBasehead") = 1
        /\ \E q \in Procs : loc[q].pc = "done" /\ ~loc[q].invoked

\* C2: when the comparison has behind_by = 0, syncFork returns success with
\* 'Fork is already up to date' and issues no getRef, createRef, updateRef
\* or pulls.create call, whatever create_pr is.
C2_UpToDateNoMutation ==
    \A p \in Procs :
        (loc[p].compared /\ loc[p].comparison.behind_by = 0) =>
            /\ loc[p].pc = "done"
            /\ loc[p].result = UpToDateResult
            /\ Count(p, "git.getRef") = 0
            /\ Count(p, "git.createRef") = 0
            /\ Count(p, "git.updateRef") = 0
            /\ Count(p, "pulls.create") = 0

C2_Witness ==
    \E p \in Procs :
        /\ loc[p].compared /\ loc[p].comparison.behind_by = 0
        /\ loc[p].comparison.ahead_by > 0
        /\ loc[p].config.props.create_pr = False
        /\ loc[p].result = UpToDateResult

\* C3: with behind_by = N > 0 and create_pr unset or true, a syncFork that
\* returns has issued exactly one createRef and one pulls.create and no
\* updateRef, and returns success with commits_synced = N.
C3_PullRequestPath ==
    \A p \in Procs :
        (Returned(p) /\ loc[p].compared /\ loc[p].comparison.behind_by > 0
                /\ loc[p].config.props.create_pr \in {Undefined, True}) =>
            /\ Count(p, "git.createRef") = 1
            /\ Count(p, "pulls.create") = 1
            /\ Count(p, "git.updateRef") = 0
            /\ loc[p].result.value.success
            /\ loc[p].result.value.commits_synced = loc[p].comparison.behind_by

C3_Witness ==
    \E p \in Procs :
        /\ Returned(p) /\ loc[p].comparison.behind_by > 0
        /\ loc[p].config.props.create_pr = Undefined
        /\ Count(p, "pulls.create") = 1
        /\ Len(plat.prs) >= 1

\* C4: with behind_by > 0 and create_pr = false, a syncFork that returns has
\* issued exactly one updateRef, on the fork's heads/<base_branch>, with the
\* sha that getRef returned for the upstream's heads/<base_branch>, and no
\* createRef and no pulls.create.
C4_DirectPath ==
    \A p \in Procs :
        (Returned(p) /\ loc[p].compared /\ loc[p].comparison.behind_by > 0
                /\ loc[p].config.props.create_pr = False) =>
            /\ Count(p, "git.updateRef") = 1
            /\ Count(p, "git.createRef") = 0
            /\ Count(p, "pulls.create") = 0
            /\ \E i, j \in 1..Len(calls[p]) :
                  /\ i < j
                  /\ calls[p][i] = [op |-> "git.getRef",
                                    owner |-> upstreamOwnerOf(loc[p].config),
                                    repo |-> upstreamRepoOf(loc[p].config),
                                    ref |-> <<"heads/">> \o loc[p].comparison.base_branch]
                  /\ calls[p][j].op = "git.updateRef"
                  /\ calls[p][j].owner = ForkOwner
                  /\ calls[p][j].repo = ForkName
                  /\ calls[p][j].ref = <<"heads/">> \o loc[p].comparison.base_branch
                  /\ calls[p][j].sha = loc[p].upstreamRef

C4_Witness ==
    \E p \in Procs :
        /\ Returned(p) /\ loc[p].comparison.behind_by > 0
        /\ loc[p].config.props.create_pr = False
        /\ Count(p, "git.updateRef") = 1
        /\ loc[p].result.value.success

\* C5: the direct strategy's update of the fork's base branch is forced: a
\* direct sync whose updateRef reaches the platform succeeds also when the
\* fork's branch holds commits the upstream lacks.
C5_DirectSyncForced ==
    \A p \in Procs :
        (loc[p].strategy = "direct" /\ loc[p].pc = "done"
                /\ Count(p, "git.updateRef") = 1
                /\ loc[p].result # Threw(strategyPrefix("direct"), ServerError.message)) =>
            Returned(p)

(***************************************************************************)
(* Claims about failures, checked under Spec.                              *)
(***************************************************************************)
\* loadConfig has run to its end in the handler of p
LoadConfigEnded(p) == loc[p].load.kind # "none"

ReturnedNull(p) == loc[p].load.kind = "value" /\ loc[p].load.config = Scalar(Null)

NotFoundOnFetch(p) ==
    loc[p].loadError.op = "repos.getContent" /\ loc[p].loadError.status = 404

\* every failure other than the 404 is rethrown under loadConfig's prefix,
\* and the one getContent call of the invocation is the first call of the
\* event, for '.omfg.yml' of the event's repository
OtherFailuresWrappedOwnCall(p) ==
    /\ (loc[p].loadError # NoFailure /\ ~NotFoundOnFetch(p))
          => /\ loc[p].load.kind = "threw"
             /\ loc[p].load.message
                   = <<"Failed to load .omfg.yml: ", loc[p].loadError.message>>
    /\ Count(p, "repos.getContent") = 1
    /\ calls[p][1] = [op |-> "repos.getContent", owner |-> ForkOwner,
                      repo |-> ForkName, path |-> ".omfg.yml"]

\* C13 as stated: loadConfig returns null exactly when the content fetch
\* fails with status 404; every other failure of the fetch, the decode or
\* the parse fails with 'Failed to load .omfg.yml: ' and the original
\* message; each invocation issues its own getContent call for '.omfg.yml'
\* with the owner and name of the event's repository.
C13_NullExactlyOn404 ==
    \A p \in Procs : LoadConfigEnded(p) =>
        /\ ReturnedNull(p) <=> NotFoundOnFetch(p)
        /\ OtherFailuresWrappedOwnCall(p)

\* C13, amended: loadConfig returns null when the content fetch fails with
\* status 404 and otherwise only when the fetched document itself is the
\* YAML null; the rest as stated.
C13_NullOn404OrNullDocument ==
    \A p \in Procs : LoadConfigEnded(p) =>
        /\ ReturnedNull(p) <=>
              \/ NotFoundOnFetch(p)
              \/ (loc[p].loadError = NoFailure /\ plat.file.doc = Scalar(Null))
        /\ OtherFailuresWrappedOwnCall(p)

C13_Witness ==
    \E p, q \in Procs :
        /\ ReturnedNull(p) /\ NotFoundOnFetch(p)
        /\ loc[q].load.kind = "threw" /\ loc[q].loadError.status = 500
        /\ Count(p, "repos.getContent") = 1 /\ Count(q, "repos.getContent") = 1

Failed(p) == loc[p].load.kind = "threw" \/ loc[p].result.kind = "threw"

\* syncFork threw, in the handler of p, the message made of prefix and of
\* the message of the call that failed
ThrewWrapped(p, prefix) ==
    loc[p].result = [kind |-> "threw", message |-> <<prefix, loc[p].failure.message>>]

\* C14: when the upstream metadata fetch or the comparison fails, the
\* attempt fails with 'Failed to compare fork with upstream: ' and the
\* original message, no comparison is requested after a failed metadata
\* fetch, and no getRef, createRef, updateRef or pulls.create is issued.
C14_CompareFailureWrapped ==
    \A p \in Procs :
        loc[p].failure.op \in {"repos.get", "repos.compareCommitsWithBasehead"} =>
            /\ ThrewWrapped(p, "Failed to compare fork with upstream: ")
            /\ loc[p].failure.op = "repos.get"
                  => Count(p, "repos.compareCommitsWithBasehead") = 0
            /\ \A op \in {"git.getRef", "git.createRef", "git.updateRef", "pulls.create"} :
                  Count(p, op) = 0

C14_Witness ==
    \E p, q \in Procs :
        /\ loc[p].failure.op = "repos.get" /\ loc[p].result.kind = "threw"
        /\ loc[q].failure.op = "repos.compareCommitsWithBasehead"
        /\ loc[q].result.kind = "threw"

\* C15: a failed getRef, createRef or pulls.create of the pull-request
\* strategy fails the attempt with 'Failed to create sync pull request: '
\* and the original message, a failed getRef or updateRef of the direct
\* strategy with 'Failed to perform direct sync: ' and the original message;
\* syncFork rethrows, and never returns success after a failed remote call.
C15_StrategyFailureWrapped ==
    \A p \in Procs :
        /\ (loc[p].strategy = "pr"
               /\ loc[p].failure.op \in {"git.getRef", "git.createRef", "pulls.create"})
              => ThrewWrapped(p, "Failed to create sync pull request: ")
        /\ (loc[p].strategy = "direct"
               /\ loc[p].failure.op \in {"git.getRef", "git.updateRef"})
              => ThrewWrapped(p, "Failed to perform direct sync: ")
        /\ loc[p].failure # NoFailure => loc[p].result.kind = "threw"

C15_Witness ==
    \E p, q \in Procs :
        /\ loc[p].failure.op = "git.getRef" /\ loc[p].result.kind = "threw"
        /\ loc[q].failure.op \in {"git.createRef", "git.updateRef", "pulls.create"}
        /\ loc[q].failure.status = 422
        /\ loc[q].result.kind = "threw"

\* C16: when createRef succeeded and pulls.create then fails, the attempt
\* ends in failure with the sync branch still in the fork: pulls.create is the
\* last call of the attempt, and no call deletes a ref.
C16_SyncBranchLeftBehind ==
    \A p \in Procs : loc[p].failure.op = "pulls.create" =>
        /\ loc[p].result.kind = "threw"
        /\ loc[p].syncBranchName \in DOMAIN plat.forkRefs
        /\ calls[p][Len(calls[p])].op = "pulls.create"
        /\ Count(p, "git.deleteRef") = 0

C16_Witness ==
    \E p \in Procs :
        /\ loc[p].failure.op = "pulls.create"
        /\ Count(p, "git.createRef") = 1
        /\ loc[p].syncBranchName \in DOMAIN plat.forkRefs
        /\ loc[p].pc = "done"

\* an error was raised in the handler of p: it is caught there and logged,
\* and the handler is over
CaughtAndLogged(p) ==
    /\ ~loc[p].escaped
    /\ Failed(p) =>
          /\ loc[p].pc = "done"
          /\ loc[p].log # <<>>
          /\ loc[p].log[Len(loc[p].log)] = "Error processing push event"

\* the step in which the handler of p fails leaves the other handlers alone
FailureIsLocal ==
    \A p \in Procs : (~Failed(p) /\ Failed(p)') =>
        \A q \in Procs \ {p} : loc'[q] = loc[q] /\ calls'[q] = calls[q]

\* C17: the push handler lets no failure out: every error of loadConfig, of
\* the comparison or of a strategy is caught and logged and the handler
\* completes, and the handling of the other events is not affected.
C17_HandlerNeverPropagates ==
    [][/\ \A p \in Procs : CaughtAndLogged(p)'
       /\ FailureIsLocal]_vars

C17_Witness ==
    \E p, q \in Procs :
        /\ loc[p].load.kind = "threw" /\ loc[p].pc = "done"
        /\ loc[q].result.kind = "threw" /\ loc[q].failure.op = "git.updateRef"
        /\ loc[q].log = <<"Failed to sync fork", "Error processing push event">>

(***************************************************************************)
(* Claims about what is synced, checked under Spec.                        *)
(***************************************************************************)
\* C18: with compare(base = fork, head = upstream) counting in ahead_by the
\* commits of the upstream that the fork lacks and in behind_by the commits
\* of the fork that the upstream lacks, whenever the upstream's default
\* branch has a commit the fork's branch lacks, the comparison syncFork uses
\* has behind_by > 0 and the attempt does not end as 'Fork is already up to
\* date'.
C18_UpstreamCommitsDetected ==
    \A p \in Procs :
        (loc[p].compared /\ loc[p].comparison.ahead_by > 0) =>
            /\ loc[p].comparison.behind_by > 0
            /\ loc[p].comparison.commits # <<>>
            /\ loc[p].result # UpToDateResult

\* the refs of the branches a configuration makes eligible for sync: those
\* of its branches field, main and master when it has none
ListedRefs(config) ==
    IF isArray(config.props.branches)
    THEN {<<"refs/heads/">> \o config.props.branches.v[i] :
             i \in 1..Len(config.props.branches.v)}
    ELSE {RefsHeadsMain, RefsHeadsMaster}

\* C19: a sync is attempted only for a branch the configuration lists in
\* branches (main and master when the field is absent): a push to a branch
\* that is not listed leads to no compare call and to no ref or pull-request
\* mutation, and a push to a listed branch is considered for sync also when
\* the branch is not main or master.
C19_OnlyListedBranches ==
    \A p \in Procs :
        /\ (\E op \in {"repos.compareCommitsWithBasehead", "git.createRef",
                       "git.updateRef", "pulls.create"} : Count(p, op) > 0)
              => loc[p].ref \in ListedRefs(loc[p].config)
        /\ (loc[p].pc = "done" /\ loc[p].ref \in ListedRefs(plat.file.doc)
               /\ plat.file.state = "ok")
              => Count(p, "repos.getContent") = 1

(***************************************************************************)
(* Claims about the Action, checked under SpecAction.                      *)
(***************************************************************************)
\* owner/repo: one '/' between a non-empty owner and a non-empty repository
\* name, both made of name characters
OwnerRepoForm(s) ==
    LET parts == split(s, "/")
    IN  /\ Len(parts) = 2
        /\ \A k \in 1..2 :
              /\ parts[k] # <<>>
              /\ \A j \in 1..Len(parts[k]) : parts[k][j] \in NameChars

StrategyText == "Invalid conflict-strategy: $1. Must be one of: merge, rebase, fail"
RepoText == "Invalid upstream-repo format: $1. Must be in format: owner/repo"
OptionsText ==
    "At least one sync option must be enabled (sync-code, sync-workflows, or sync-secrets)"

\* C20: validateInputs fails exactly when the conflict strategy is not one
\* of merge, rebase, fail, or a non-empty upstream-repo is not of the form
\* owner/repo, or none of sync-code, sync-workflows, sync-secrets is
\* enabled; the first violated check, in that order, gives the message; and
\* when it fails run() reports through setFailed and never calls sync: no
\* git or API operation is performed.
C20_InvalidInputsFailBeforeSync ==
    (act.pc \notin {"idle", "start"} /\ act.inputs.readError = "") =>
        LET badStrategy == act.inputs.conflictStrategy \notin {"merge", "rebase", "fail"}
            badRepo == act.inputs.upstreamRepo # <<>>
                           /\ ~OwnerRepoForm(act.inputs.upstreamRepo)
            noOption == ~(act.inputs.syncCode \/ act.inputs.syncWorkflows
                             \/ act.inputs.syncSecrets)
            rejected == act.thrown.text \in {StrategyText, RepoText, OptionsText}
        IN  /\ rejected <=> (badStrategy \/ badRepo \/ noOption)
            /\ badStrategy => act.thrown = [text |-> StrategyText,
                                            value |-> <<act.inputs.conflictStrategy>>]
            /\ (~badStrategy /\ badRepo)
                  => act.thrown = [text |-> RepoText, value |-> act.inputs.upstreamRepo]
            /\ (~badStrategy /\ ~badRepo /\ noOption) => act.thrown = Error(OptionsText)
            /\ rejected =>
                  /\ act.pc = "done"
                  /\ act.failed = <<[prefix |-> "Action failed: ", error |-> act.thrown]>>
                  /\ act.ops = <<>>
                  /\ act.result = NoSyncResult

C20_Witness ==
    /\ act.pc = "done"
    /\ act.inputs.conflictStrategy = "merge"
    /\ act.inputs.upstreamRepo = <<"a", "/", "/">>
    /\ ~act.inputs.syncCode /\ ~act.inputs.syncWorkflows /\ ~act.inputs.syncSecrets
    /\ act.thrown.text = RepoText
    /\ Len(act.failed) = 1

\* the run performed the operation
Did(op) == \E i \in 1..Len(act.ops) : act.ops[i] = op

\* C21: with dry-run true, whatever the other inputs, sync applies no
\* change: no merge, no rebase, no workflow file written, no branch created
\* or pushed, no pull request opened; the changes it reports are the ones
\* that would be made.
C21_DryRunAppliesNothing ==
    act.inputs.dryRun =>
        /\ \A op \in {"git.merge", "git.rebase", "io.mkdirP", "fs.writeFile",
                      "git.checkoutLocalBranch", "git.push", "pulls.create"} : ~Did(op)
        /\ act.repo = NoRepoChange
        /\ \A i \in 1..Len(act.result.changes) :
              act.result.changes[i].action
                  \in {"modified", "would-sync", "would-need-manual-sync"}

C21_Witness ==
    /\ act.pc = "done"
    /\ act.inputs.dryRun /\ act.inputs.requireApproval
    /\ act.inputs.syncCode /\ act.inputs.syncWorkflows /\ act.inputs.syncSecrets
    /\ act.result.filesChanged = 2
    /\ Len(act.result.changes) = 3

\* C22: with conflict-strategy 'fail' the sync stops when the code step
\* detects a conflict: no workflow sync, no secrets check and no approval
\* pull request follows the conflict.
C22_FailStopsOnConflict ==
    (act.inputs.conflictStrategy = "fail" /\ act.conflictSeen) =>
        \A op \in {"repos.getContent", "io.mkdirP", "fs.writeFile",
                   "actions.listRepoSecrets", "git.checkoutLocalBranch", "git.push",
                   "pulls.create"} : ~Did(op)

\* sync() was called and has returned
SyncReturned == act.pc = "report" \/ (act.pc = "done" /\ act.result.status # "none")

\* C23: sync never throws and returns a result whose status is success,
\* conflicts or failed: failed, with the error's message, whenever the git
\* setup, the fetch, the code sync or the approval pull request raised an
\* error that is not a conflict; conflicts only when the code sync detected
\* a conflict; and run() calls setFailed for failed only.
C23_SyncAlwaysReturnsStatus ==
    SyncReturned =>
        /\ act.thrown = NoError
        /\ act.result.status \in {"success", "conflicts", "failed"}
        /\ (act.raisedIn # "none") <=> (act.result.status = "failed")
        /\ act.raisedIn \in {"none", "sync", "code", "approval"}
        /\ act.result.status = "failed"
              => act.result.error \in {Error("GitError"), Error("HttpError")}
        /\ act.result.status # "failed" => act.result.error = NoError
        /\ act.result.status = "conflicts" => act.conflictSeen
        /\ act.pc = "done" =>
              act.failed = IF act.result.status = "failed"
                           THEN <<[prefix |-> "Sync failed: ", error |-> act.result.error]>>
                           ELSE <<>>

C23_Witness ==
    /\ act.pc = "done"
    /\ act.conflictSeen
    /\ act.raisedIn = "approval"
    /\ act.result.status = "failed"
    /\ Len(act.failed) = 1

CountOp(op) == Cardinality({i \in 1..Len(act.ops) : act.ops[i] = op})

ApprovalSteps == <<"git.checkoutLocalBranch", "git.push", "pulls.create">>

\* sync went past its approval condition (src/sync.js:79)
PastApproval == SyncReturned /\ act.raisedIn \notin {"sync", "code"}

ApprovalCondition ==
    act.inputs.requireApproval /\ ~act.inputs.dryRun /\ act.result.filesChanged > 0

\* C24: the approval pull request is made exactly when require-approval is
\* true, dry-run is false and the sync steps changed at least one file; then
\* one new branch is created and pushed and after that one pull request is
\* opened from it into the workflow's branch (unless one of these three
\* operations itself fails); in every other case no branch is pushed and no
\* pull request is opened.
C24_ApprovalExactlyWhenNeeded ==
    /\ PastApproval => (Did("git.checkoutLocalBranch") <=> ApprovalCondition)
    /\ ~PastApproval => \A i \in 1..3 : ~Did(ApprovalSteps[i])
    /\ (PastApproval /\ ApprovalCondition /\ act.raisedIn = "none") =>
          /\ \A i \in 1..3 : CountOp(ApprovalSteps[i]) = 1
          /\ Len(act.ops) >= 3
          /\ SubSeq(act.ops, Len(act.ops) - 2, Len(act.ops)) = ApprovalSteps
          /\ act.repo.checkedOut = approvalBranchName
          /\ act.repo.pushed = {approvalBranchName}
          /\ act.repo.prs = <<[head |-> approvalBranchName, base |-> "workflow branch"]>>
    /\ ~(PastApproval /\ ApprovalCondition) =>
          act.repo.pushed = {} /\ act.repo.prs = <<>>
    /\ act.repo.prs # <<>> => act.repo.pushed # {}

C24_Witness ==
    /\ act.pc = "done"
    /\ ApprovalCondition
    /\ act.raisedIn = "none"
    /\ Len(act.repo.prs) = 1
    /\ act.repo.pushed = {approvalBranchName}

\* C25: with require-approval true and dry-run false, the upstream changes
\* are not merged or rebased into the checked-out branch before the approval
\* pull request exists: they reach that branch only through the sync branch
\* and its pull request.
C25_NoMergeBeforeApproval ==
    (act.inputs.requireApproval /\ ~act.inputs.dryRun) =>
        /\ act.repo.integrated = "workflow branch" => act.repo.prs # <<>>
        /\ (Did("git.merge") \/ Did("git.rebase")) => Did("pulls.create")

\* the handler of p ran the pull-request strategy (it chose its branch name)
RanPullRequestStrategy(p) == loc[p].strategy = "pr"

CreateRefCollided(p) ==
    /\ loc[p].failure # NoFailure
    /\ loc[p].failure.op = "git.createRef"
    /\ loc[p].failure.status = 422

\* C26: any two invocations of the pull-request strategy for the same fork,
\* one after the other or overlapping, use distinct sync branch names, so
\* that no createRef is rejected because the branch of another invocation
\* exists.
C26_SyncBranchNamesDistinct ==
    /\ \A p, q \in Procs :
          (p # q /\ RanPullRequestStrategy(p) /\ RanPullRequestStrategy(q))
              => loc[p].syncBranchName # loc[q].syncBranchName
    /\ \A p \in Procs : ~CreateRefCollided(p)

\* the attempt of p ran the pull-request strategy to its end
CompletedPullRequestStrategy(p) ==
    /\ loc[p].pc = "done"
    /\ loc[p].strategy = "pr"
    /\ loc[p].result = SyncedResult(loc[p].comparison)

PullRequestHeads == {plat.prs[i].head : i \in 1..Len(plat.prs)}

\* C27: nothing excludes or de-duplicates sync attempts: when the handlers
\* of two push events for the same fork have both completed the
\* pull-request strategy, the fork holds two sync branches, each at the
\* upstream commit its attempt looked up, and two open sync pull requests,
\* one per branch.
C27_BothAttemptsLeaveBranchAndPullRequest ==
    (\A p \in Procs : CompletedPullRequestStrategy(p)) =>
        /\ Cardinality({loc[p].syncBranchName : p \in Procs}) = 2
        /\ \A p \in Procs :
              /\ loc[p].syncBranchName \in DOMAIN plat.forkRefs
              /\ plat.forkRefs[loc[p].syncBranchName] = loc[p].upstreamRef
        /\ Len(plat.prs) = 2
        /\ PullRequestHeads = {loc[p].syncBranchName : p \in Procs}
        /\ \A i \in 1..2 : plat.prs[i].base = DefaultBranch

\* both attempts completed for the same upstream commit of a fork that is
\* behind its upstream, and they overlapped: e1 took its branch name first
\* and e2 opened its pull request first
C27_Witness ==
    /\ \A p \in Procs : CompletedPullRequestStrategy(p)
    /\ loc["e1"].upstreamRef = loc["e2"].upstreamRef
    /\ plat.upstreamTip = "u1" /\ plat.forkRefs[DefaultBranch] = "f1"
    /\ plat.forkRefs[loc["e1"].syncBranchName] = "u1"
    /\ plat.forkRefs[loc["e2"].syncBranchName] = "u1"
    /\ loc["e1"].syncBranchName = syncBranchNameAt(0)
    /\ loc["e2"].syncBranchName = syncBranchNameAt(1)
    /\ Len(plat.prs) = 2
    /\ plat.prs[1].head = loc["e2"].syncBranchName

CountCall(p, op) == Cardinality({i \in 1..Len(calls[p]) : calls[p][i].op = op})

\* the terminal outcomes the attempt of p is in
Outcomes(p) ==
    { o \in {"up-to-date", "pull request created", "directly pushed", "failed"} :
        \/ o = "up-to-date" /\ loc[p].result = UpToDateResult
        \/ o = "pull request created" /\ loc[p].strategy = "pr"
              /\ loc[p].result = SyncedResult(loc[p].comparison)
        \/ o = "directly pushed" /\ loc[p].strategy = "direct"
              /\ loc[p].result = SyncedResult(loc[p].comparison)
        \/ o = "failed" /\ loc[p].result.kind = "threw" }

\* the remote call a suspended handler awaits, by its position
AwaitedOp(pc) ==
    CASE pc = "getContent" -> "repos.getContent"
      [] pc = "repos.get" -> "repos.get"
      [] pc = "compare" -> "repos.compareCommitsWithBasehead"
      [] pc = "getRef" -> "git.getRef"
      [] pc = "createRef" -> "git.createRef"
      [] pc = "pulls.create" -> "pulls.create"
      [] pc = "updateRef" -> "git.updateRef"

OneAttempt(p) ==
    /\ \A i \in 1..Len(calls[p]) : CountCall(p, calls[p][i].op) = 1
    /\ Awaiting(p) => (calls[p] # <<>> /\ pending(p).op = AwaitedOp(loc[p].pc))
    /\ (loc[p].invoked /\ loc[p].pc = "done") => Cardinality(Outcomes(p)) = 1
    /\ (loc[p].invoked /\ loc[p].pc # "done") => Outcomes(p) = {}
    /\ (loc[p].failure # NoFailure /\ loc[p].failure.op # "split")
          => (loc[p].pc = "done" /\ pending(p).op = loc[p].failure.op)

\* C28: every syncFork invocation terminates, in exactly one of the
\* outcomes up-to-date, pull request created, directly pushed or failed;
\* it issues each remote call at most once, and once it is over (after a
\* failed call too) it issues no call again.
C28_EveryAttemptEndsOnce ==
    /\ [](\A p \in Procs : OneAttempt(p))
    /\ [][\A p \in Procs :
             loc[p].pc = "done" => (loc'[p] = loc[p] /\ calls'[p] = calls[p])]_vars
    /\ \A p \in Procs : loc[p].invoked ~> (loc[p].pc = "done")

C28_Witness ==
    /\ loc["e1"].pc = "done" /\ loc["e1"].result.kind = "threw"
    /\ loc["e1"].failure.op = "git.createRef"
    /\ Len(calls["e1"]) = 5
    /\ Outcomes("e2") = {"pull request created"}

OpsOf(p) == [i \in 1..Len(calls[p]) |-> calls[p][i].op]

IsPrefix(s, t) == Len(s) <= Len(t) /\ s = SubSeq(t, 1, Len(s))

CommonCalls ==
    <<"repos.getContent", "repos.get", "repos.compareCommitsWithBasehead", "git.getRef">>

\* the calls of the attempt of p so far: in the order of the code, each
\* carrying what the calls before it returned
CallsInOrder(p) ==
    /\ \/ IsPrefix(OpsOf(p), CommonCalls \o <<"git.createRef", "pulls.create">>)
       \/ IsPrefix(OpsOf(p), CommonCalls \o <<"git.updateRef">>)
    /\ loc[p].failure # NoFailure => loc[p].pc = "done"
    /\ Len(calls[p]) >= 3 =>
          /\ calls[p][3].basehead.base.branch = loc[p].baseBranch
          /\ calls[p][3].basehead.head.branch = loc[p].baseBranch
    /\ Len(calls[p]) >= 4 =>
          /\ loc[p].compared
          /\ calls[p][4].ref = <<"heads/">> \o loc[p].comparison.base_branch
          /\ loc[p].comparison.base_branch = loc[p].baseBranch
    /\ Len(calls[p]) >= 5 =>
          /\ calls[p][5].sha = loc[p].upstreamRef
          /\ calls[p][5].op = "git.createRef" =>
                calls[p][5].ref = <<"refs/heads/">> \o loc[p].syncBranchName
          /\ calls[p][5].op = "git.updateRef" =>
                calls[p][5].ref = <<"heads/">> \o loc[p].comparison.base_branch
    /\ Len(calls[p]) >= 6 =>
          /\ calls[p][6].head = Tail(calls[p][5].ref)
          /\ calls[p][6].head \in DOMAIN plat.forkRefs
          /\ calls[p][6].base = loc[p].comparison.base_branch

\* the step on which getRef answers the handler of p
GetRefAnswered(p) ==
    loc[p].pc = "getRef" /\ loc'[p].pc \in {"createRef", "updateRef"}

\* C29: within one sync attempt the remote calls are issued one after
\* another in the order upstream metadata, branch comparison, upstream ref
\* lookup, then create-ref and create-pull-request or update-ref, each only
\* after the one before it succeeded; the created or updated ref carries the
\* sha the ref lookup returned, and the pull request's head is the branch
\* just created and its base the compared base branch.
C29_CallsSequentialAndChained ==
    [][\A p \in Procs :
          /\ CallsInOrder(p)'
          /\ Len(calls'[p]) <= Len(calls[p]) + 1
          /\ Len(calls'[p]) = Len(calls[p]) + 1 => (Awaiting(p)' /\ loc[p].failure = NoFailure)
          /\ GetRefAnswered(p) =>
                /\ loc'[p].upstreamRef = plat.upstreamTip
                /\ pending(p)'.sha = plat.upstreamTip]_vars

C29_Witness ==
    /\ CompletedPullRequestStrategy("e1")
    /\ Len(calls["e1"]) = 6
    /\ loc["e1"].upstreamRef = "u2"
    /\ plat.forkRefs[loc["e1"].syncBranchName] = "u2"
    /\ plat.prs[1].head = loc["e1"].syncBranchName
    /\ plat.prs[1].base = DefaultBranch

\* C30: the push handler processes pushes to main or master only: for a
\* push whose ref is neither refs/heads/main nor refs/heads/master it
\* returns without loading the configuration and without any compare or
\* mutation call.
C30_OnlyMainOrMasterProcessed ==
    \A p \in Procs :
        (loc[p].pc # "idle" /\ loc[p].ref \notin {RefsHeadsMain, RefsHeadsMaster})
            => (calls[p] = <<>> /\ loc[p].pc = "done" /\ ~loc[p].invoked)

====
